---- MODULE Spec2Model ----
(***************************************************************************)
(* Model of redist/bundle.hpp: the container-level pack/unpack wrappers,   *)
(* the benchmark loop measures<do_enc,do_dec,do_verify>() and the three    *)
(* selection routines find_smallest_compressor, find_fastest_compressor    *)
(* and find_fastest_decompressor.                                          *)
(*                                                                         *)
(* The codecs themselves (z, unz, low-level pack/unpack/bound) are only    *)
(* declared in the header; they are modelled as external collaborators     *)
(* whose behaviour per identifier is fixed when a run starts.              *)
(*                                                                         *)
(* The selection routines call measures< true, false, false >(...), i.e.   *)
(* they give the three booleans and leave T to deduction; the model reads  *)
(* the three arguments as (do_enc, do_dec, do_verify).                     *)
(***************************************************************************)
EXTENDS Integers, Sequences, FiniteSets, TLC

\* ---------------------------------------------------------------- bounds
MaxCands == 2   \* longest candidate list
MaxClock == 2   \* last reading of the clock, in ms after the call began
MaxBuf   == 2   \* longest container handed to pack/unpack

\* ------------------------------------------------------- program constants
UNDEFINED == 0
SHOCO     == 1
LZ4       == 2
MINIZ     == 3
LZLIB     == 4
NONE      == UNDEFINED
DEFAULT   == MINIZ
NO_COMPRESSION_TRESHOLD == 5
NoTime    == 9999999

\* identifiers that occur in candidate lists of the model
Candidates == {NONE, SHOCO, LZ4}
\* payload sizes, and the compressed sizes (bytes) a codec may produce:
\* of a 4000-byte payload they are reductions of 99.975%, 50% and 10%
OrigSizes == {0, 4000}
ZSizes    == {1, 2000, 3600}

\* ------------------------------------------------------------ std::string
\* A string is its length and an abstract content: two strings are equal
\* iff both agree.  "z" content is the compressed form produced by codec q.
Str(len, kind, q) == [len |-> len, kind |-> kind, q |-> q]
Empty == Str(0, "empty", NONE)

\* --------------------------------------------------------------- doubles
\* A double is NaN, -inf or the fraction num/den (den > 0).  Fractions are
\* compared exactly; the sizes of the model stay clear of the one value
\* (ratio = 99.95) where rounding could decide a comparison.
Fin(num, den) == [cls |-> "fin", num |-> num, den |-> den]
NaN    == [cls |-> "nan", num |-> 0, den |-> 1]
NegInf == [cls |-> "ninf", num |-> 0, den |-> 1]

\* a > b on doubles: false whenever an operand is NaN
DGt(a, b) ==
    /\ a.cls = "fin"
    /\ \/ b.cls = "ninf"
       \/ b.cls = "fin" /\ a.num * b.den > b.num * a.den

\* a >= b on doubles
DGe(a, b) ==
    \/ a.cls = "fin" /\ b.cls = "ninf"
    \/ a.cls = "ninf" /\ b.cls = "ninf"
    \/ a.cls = "fin" /\ b.cls = "fin" /\ a.num * b.den >= b.num * a.den

\* 100 - 100 * ( double( zipped.size() ) / original.size() )
Ratio(zsize, osize) ==
    IF osize = 0
    THEN IF zsize = 0 THEN NaN ELSE NegInf
    ELSE Fin(100 * osize - 100 * zsize, osize)

VARIABLES
    op,         \* the entry point that was called
    pc,         \* where the call is: "measures", "select", "call", "done", "threw"
    do_enc, do_dec, do_verify,   \* template arguments of measures
    original,   \* the payload
    encodings,  \* the candidate list
    codec,      \* behaviour of the external codec behind each identifier
    results,    \* std::vector<measure> results
    zipped, unzipped,            \* locals of measures
    handed,     \* per iteration: was z called, was unz called and on what,
                \* and the value of unzipped when the iteration ended
    clock,      \* std::chrono::high_resolution_clock::now(), in ms
    i,          \* index of the selection loop
    q, ratio, enctime, dectime,  \* locals of the selection routines
    buffer_in, buffer_out,       \* containers of pack/unpack
    low,        \* what the low-level pack/unpack call did
    ret         \* result of the container-level pack/unpack

vars == <<op, pc, do_enc, do_dec, do_verify, original, encodings, codec,
          results, zipped, unzipped, handed, clock, i, q, ratio, enctime,
          dectime, buffer_in, buffer_out, low, ret>>

benchVars == <<do_enc, do_dec, do_verify, original, encodings, codec>>
packVars  == <<buffer_in, buffer_out, low, ret>>

Range(s) == {s[k] : k \in 1..Len(s)}

\* ------------------------------------------------------- external codecs
Behaviours ==
    {[fault |-> "ok", zlen |-> n] : n \in ZSizes}
        \cup {[fault |-> "corrupt", zlen |-> 2000], [fault |-> "packfail", zlen |-> 0]}
Identity == [fault |-> "ok", zlen |-> 0]

\* z(self, scheme): NONE is the identity transform; a codec whose pack
\* fails yields the empty string; otherwise the codec's compressed form.
Z(self, scheme) ==
    IF scheme = NONE THEN self
    ELSE IF codec[scheme].fault = "packfail" THEN Empty
    ELSE Str(codec[scheme].zlen, "z", scheme)

\* unz(self, scheme): decoding nothing yields nothing; NONE is the
\* identity; a sound codec reproduces the payload, a faulty one returns
\* as many bytes with other contents.
Unz(self, scheme) ==
    IF self.len = 0 THEN Empty
    ELSE IF scheme = NONE THEN self
    ELSE IF self.kind = "z" /\ self.q = scheme /\ codec[scheme].fault = "ok"
         THEN original
    ELSE IF original.len = 0 THEN Empty
    ELSE Str(original.len, "bad", NONE)

\* ------------------------------------------------------ struct measure
measure ==
    [q |-> NONE, ratio |-> Fin(0, 1), enctime |-> 0, dectime |-> 0,
     memusage |-> 0, pass |-> FALSE]

\* variant: the record is pushed but r.q is never set
PushRecord_NoId(res, scheme) == Append(res, measure)

\* results.push_back( measure() ); r.q = scheme;
PushRecord(res, scheme) == Append(res, [measure EXCEPT !.q = scheme])

\* lines 102-108
Encode(r, zin, scheme, te) ==
    IF do_enc
    THEN LET z1 == Z(original, scheme)
         IN  [r |-> [r EXCEPT !.enctime = te,
                              !.ratio = Ratio(z1.len, original.len)],
              zipped |-> z1]
    ELSE [r |-> r, zipped |-> zin]

\* variant: unzipped is assigned only when unz returned something
Unzip_KeepOld(uzin, zin, scheme) ==
    IF Unz(zin, scheme).len = 0 THEN uzin ELSE Unz(zin, scheme)

\* unzipped = unz(zipped, scheme);
Unzip(uzin, zin, scheme) == Unz(zin, scheme)

\* lines 110-116
Decode(r, zin, uzin, scheme, td) ==
    IF do_dec
    THEN LET u1 == Unzip(uzin, zin, scheme)
         IN  [r |-> [r EXCEPT !.dectime = td, !.pass = (original = u1)],
              unzipped |-> u1]
    ELSE [r |-> r, unzipped |-> uzin]

\* variant: line 118 is missing, pass is what line 84 or line 115 left
Verdict_Missing(r, uz) == r

\* r.pass = ( do_verify && do_enc && do_dec ? original == unzipped : true );
Verdict(r, uz) ==
    [r EXCEPT !.pass = IF do_verify /\ do_enc /\ do_dec
                       THEN original = uz ELSE TRUE]

\* one iteration of the for loop of measures (lines 97-119), from the
\* results and buffers it finds
Body(res, scheme, zin, uzin, te, td) ==
    LET pushed == PushRecord(res, scheme)
        e == Encode(pushed[Len(pushed)], zin, scheme, te)
        d == Decode(e.r, e.zipped, uzin, scheme, td)
    IN  [results |-> [pushed EXCEPT ![Len(pushed)] = Verdict(d.r, d.unzipped)],
         zipped |-> e.zipped, unzipped |-> d.unzipped,
         handed |-> [enc |-> do_enc, dec |-> do_dec,
                     arg |-> IF do_dec THEN e.zipped ELSE Empty,
                     unz |-> d.unzipped]]

\* ------------------------------------------------------------ selection
\* variant: the selection starts from the default codec
InitialQ_Default == DEFAULT

\* unsigned q = bundle::NONE;
InitialQ == NONE

\* 100 - NO_COMPRESSION_TRESHOLD / 100.0
Threshold == Fin(100 * 100 - NO_COMPRESSION_TRESHOLD, 100)

\* r.pass && r.ratio > ratio && r.ratio >= (100 - NO_COMPRESSION_TRESHOLD / 100.0)
SmallestTakes(r, best) ==
    r.pass /\ DGt(r.ratio, best) /\ DGe(r.ratio, Threshold)

\* r.pass && r.enctime < enctime
FastestEncTakes(r, best) == r.pass /\ r.enctime < best

\* r.pass && r.dectime < dectime
FastestDecTakes(r, best) == r.pass /\ r.dectime < best

\* ------------------------------------------------- container pack/unpack
Buf(len, kind) == [len |-> len, kind |-> kind]
NotCalled == [called |-> FALSE, result |-> FALSE, zlen |-> 0]

\* variant: a failed pack leaves buffer_out at its worst-case size
PackFinish_NoClear(result, zlen, out) ==
    IF result THEN Buf(zlen, "packed") ELSE out

\* return result ? ( buffer_out.resize( zlen ), true ) : ( buffer_out = T2(), false );
PackFinish(result, zlen, out) ==
    IF result THEN Buf(zlen, "packed") ELSE Buf(0, "empty")

\* ------------------------------------------------------------------ Init
Lists == UNION {[1..n -> Candidates] : n \in 0..MaxCands}
Payloads == {IF n = 0 THEN Empty ELSE Str(n, "orig", NONE) : n \in OrigSizes}
Entry == {"measures", "find_smallest_compressor", "find_fastest_compressor",
          "find_fastest_decompressor"}

\* the codecs behind the identifiers of a candidate list
Codecs(list) ==
    {c \in [Candidates -> Behaviours \cup {Identity}] :
        \A id \in Candidates :
            IF id = NONE \/ id \notin Range(list)
            THEN c[id] = Identity ELSE c[id] \in Behaviours}

\* template arguments each entry point gives to measures
Flags(entry) ==
    CASE entry = "measures" -> BOOLEAN \X BOOLEAN \X BOOLEAN
      [] entry = "find_smallest_compressor" -> {<<TRUE, FALSE, FALSE>>}
      [] entry = "find_fastest_compressor" -> {<<TRUE, FALSE, FALSE>>}
      [] entry = "find_fastest_decompressor" -> {<<FALSE, TRUE, FALSE>>}

InitBench ==
    /\ op \in Entry
    /\ pc = "measures"
    /\ \E f \in Flags(op) : do_enc = f[1] /\ do_dec = f[2] /\ do_verify = f[3]
    /\ original \in Payloads
    /\ encodings \in Lists
    /\ codec \in Codecs(encodings)
    /\ buffer_in = Buf(0, "empty") /\ buffer_out = Buf(0, "empty")
    /\ q = InitialQ

InitPack ==
    /\ op \in {"pack", "unpack"}
    /\ pc = "call"
    /\ do_enc = FALSE /\ do_dec = FALSE /\ do_verify = FALSE
    /\ original = Empty /\ encodings = <<>>
    /\ codec = [id \in Candidates |-> Identity]
    /\ buffer_in \in {Buf(n, IF n = 0 THEN "empty" ELSE "in") : n \in 0..MaxBuf}
    /\ buffer_out \in {Buf(n, IF n = 0 THEN "empty" ELSE "old") : n \in 0..MaxBuf}
    /\ q \in {NONE, SHOCO, LZ4, MINIZ, LZLIB}

Init ==
    /\ InitBench \/ InitPack
    /\ results = <<>> /\ zipped = Empty /\ unzipped = Empty /\ handed = <<>>
    /\ clock = 0 /\ i = 1
    /\ ratio = Fin(0, 1) /\ enctime = NoTime /\ dectime = NoTime
    /\ low = NotCalled /\ ret = FALSE

\* --------------------------------------------------------------- actions
\* duration_cast<milliseconds>(end - begin).count() of a timed call that
\* begins at clock reading now; a call that is not made takes no time
Elapsed(timed, now) == IF timed THEN 0..(MaxClock - now) ELSE {0}

\* measures: one iteration of  for( auto scheme : encodings )
MeasuresStep ==
    /\ pc = "measures"
    /\ Len(results) < Len(encodings)
    /\ \E te \in Elapsed(do_enc, clock) :
          \E td \in Elapsed(do_dec, clock + te) :
             LET b == Body(results, encodings[Len(results) + 1],
                           zipped, unzipped, te, td)
             IN  /\ results' = b.results
                 /\ zipped' = b.zipped
                 /\ unzipped' = b.unzipped
                 /\ handed' = Append(handed, b.handed)
                 /\ clock' = clock + te + td
    /\ UNCHANGED <<op, pc, benchVars, i, q, ratio, enctime, dectime, packVars>>

\* measures: return results;  control goes back to the caller
MeasuresReturn ==
    /\ pc = "measures"
    /\ Len(results) = Len(encodings)
    /\ pc' = IF op = "measures" THEN "done" ELSE "select"
    /\ UNCHANGED <<op, benchVars, results, zipped, unzipped, handed, clock,
                   i, q, ratio, enctime, dectime, packVars>>

\* find_smallest_compressor: one iteration of  for( auto &r : results )
SmallestStep ==
    /\ op = "find_smallest_compressor" /\ pc = "select"
    /\ i <= Len(results)
    /\ IF SmallestTakes(results[i], ratio)
       THEN ratio' = results[i].ratio /\ q' = results[i].q
       ELSE UNCHANGED <<ratio, q>>
    /\ i' = i + 1
    /\ UNCHANGED <<op, pc, benchVars, results, zipped, unzipped, handed, clock,
                   enctime, dectime, packVars>>

\* find_fastest_compressor: one iteration of  for( auto &r : results )
FastestEncStep ==
    /\ op = "find_fastest_compressor" /\ pc = "select"
    /\ i <= Len(results)
    /\ IF FastestEncTakes(results[i], enctime)
       THEN enctime' = results[i].enctime /\ q' = results[i].q
       ELSE UNCHANGED <<enctime, q>>
    /\ i' = i + 1
    /\ UNCHANGED <<op, pc, benchVars, results, zipped, unzipped, handed, clock,
                   ratio, dectime, packVars>>

\* find_fastest_decompressor: one iteration of  for( auto &r : results )
FastestDecStep ==
    /\ op = "find_fastest_decompressor" /\ pc = "select"
    /\ i <= Len(results)
    /\ IF FastestDecTakes(results[i], dectime)
       THEN dectime' = results[i].dectime /\ q' = results[i].q
       ELSE UNCHANGED <<dectime, q>>
    /\ i' = i + 1
    /\ UNCHANGED <<op, pc, benchVars, results, zipped, unzipped, handed, clock,
                   ratio, enctime, packVars>>

\* return q;
ReturnQ ==
    /\ pc = "select"
    /\ i > Len(results)
    /\ pc' = "done"
    /\ UNCHANGED <<op, benchVars, results, zipped, unzipped, handed, clock,
                   i, q, ratio, enctime, dectime, packVars>>

\* pack( T2 &buffer_out, const T1 &buffer_in, unsigned q ): bound() and the
\* low-level pack() are external; at(0) of an empty container throws.
Pack ==
    /\ op = "pack" /\ pc = "call"
    /\ \E bnd \in 0..(MaxBuf + 1) :
          IF buffer_in.len = 0 \/ bnd = 0
          THEN /\ pc' = "threw"
               /\ buffer_out' = Buf(bnd, IF bnd = 0 THEN "empty" ELSE "resized")
               /\ UNCHANGED <<low, ret>>
          ELSE \E result \in BOOLEAN, zl \in 0..bnd :
               /\ pc' = "done"
               /\ low' = [called |-> TRUE, result |-> result, zlen |-> zl]
               /\ buffer_out' = PackFinish(result, zl, Buf(bnd, "resized"))
               /\ ret' = result
    /\ UNCHANGED <<op, benchVars, results, zipped, unzipped, handed, clock,
                   i, q, ratio, enctime, dectime, buffer_in>>

\* unpack( T2 &buffer_out, const T1 &buffer_in, unsigned q )
Unpack ==
    /\ op = "unpack" /\ pc = "call"
    /\ IF buffer_in.len = 0 \/ buffer_out.len = 0
       THEN /\ pc' = "threw"
            /\ UNCHANGED <<buffer_out, low, ret>>
       ELSE \E result \in BOOLEAN :
            /\ pc' = "done"
            /\ low' = [called |-> TRUE, result |-> result, zlen |-> buffer_out.len]
            /\ buffer_out' = Buf(buffer_out.len, "unpacked")
            /\ ret' = result
    /\ UNCHANGED <<op, benchVars, results, zipped, unzipped, handed, clock,
                   i, q, ratio, enctime, dectime, buffer_in>>

Next ==
    \/ MeasuresStep
    \/ MeasuresReturn
    \/ SmallestStep
    \/ FastestEncStep
    \/ FastestDecStep
    \/ ReturnQ
    \/ Pack
    \/ Unpack

Spec == Init /\ [][Next]_vars

\* The three families of entry points, each on its own.
Finders == Entry \ {"measures"}

\* a call of measures< T, do_enc, do_dec, do_verify >
InitMeasures == Init /\ op = "measures"
NextMeasures == MeasuresStep \/ MeasuresReturn
SpecMeasures == InitMeasures /\ [][NextMeasures]_vars

\* a call of find_smallest_compressor, find_fastest_compressor or
\* find_fastest_decompressor
InitSelect == Init /\ op \in Finders
NextSelect ==
    \/ MeasuresStep
    \/ MeasuresReturn
    \/ SmallestStep
    \/ FastestEncStep
    \/ FastestDecStep
    \/ ReturnQ
SpecSelect == InitSelect /\ [][NextSelect]_vars

\* a call of the container-level pack or unpack
InitContainer == Init /\ op \in {"pack", "unpack"}
NextContainer == Pack \/ Unpack
SpecContainer == InitContainer /\ [][NextContainer]_vars

\* ================================================================ claims
Returned(entry) == op = entry /\ pc = "done"
Recs == 1..Len(results)
Zero == Fin(0, 1)

\* the codec behind id does not reproduce the payload
RoundTripFails(id) == Unz(Z(original, id), id) # original
\* the codec behind id fails on the payload: its pack fails, or its round
\* trip does not reproduce the payload
Failing(id) ==
    id # NONE /\ (codec[id].fault = "packfail" \/ RoundTripFails(id))

\* records whose ratio is a number, and those among them nobody beats
Measured == {k \in Recs : results[k].pass /\ results[k].ratio.cls # "nan"}
BestRatio == {k \in Measured :
                 \A j \in Measured : DGe(results[k].ratio, results[j].ratio)}
ClearsFivePercent(k) == DGe(results[k].ratio, Fin(NO_COMPRESSION_TRESHOLD, 1))

\* C1: find_smallest_compressor returns a passing candidate of highest
\* ratio whenever that ratio is at least 5%, and NONE otherwise.
C1_SmallestPicksBestAboveFivePercent ==
    Returned("find_smallest_compressor") =>
        IF \E k \in BestRatio : ClearsFivePercent(k)
        THEN \E k \in BestRatio : q = results[k].q
        ELSE q = NONE

\* C2: none of the three selection routines returns a candidate whose
\* codec fails on the payload.
C2_FailingCandidateNeverChosen ==
    (op \in Finders /\ pc = "done") =>
        \A k \in 1..Len(encodings) : encodings[k] = q => ~Failing(q)

\* C3: with encode, decode and verification enabled, a candidate that fails
\* the round trip has pass = FALSE, the loop goes on to the end of the
\* list, and every record's pass and ratio are those the candidate gets
\* when measured alone from fresh buffers.
C3_FaultDoesNotLeak ==
    (op = "measures" /\ do_enc /\ do_dec /\ do_verify) =>
        /\ \A k \in Recs :
              LET alone == Body(<<>>, encodings[k], Empty, Empty,
                                results[k].enctime, results[k].dectime).results[1]
              IN  /\ results[k].pass = alone.pass
                  /\ results[k].ratio = alone.ratio
                  /\ RoundTripFails(encodings[k]) => ~results[k].pass
        /\ (pc = "measures" /\ Len(results) < Len(encodings)) => ENABLED MeasuresStep
        /\ pc = "done" => Len(results) = Len(encodings)

C3_Witness ==
    /\ Returned("measures") /\ do_enc /\ do_dec /\ do_verify
    /\ original.len > 0
    /\ \E j, k \in Recs :
          /\ j < k
          /\ RoundTripFails(encodings[j]) /\ ~results[j].pass
          /\ encodings[k] # NONE /\ results[k].pass

\* C4: in every record, pass is the byte-for-byte comparison of the
\* decompressed result with the original when encode, decode and
\* verification all ran, and TRUE in every other configuration.
C4_PassVerdict ==
    \A k \in Recs :
        results[k].pass =
            IF do_verify /\ do_enc /\ do_dec
            THEN handed[k].unz = original
            ELSE TRUE

C4_Witness ==
    /\ Returned("measures") /\ do_enc /\ do_dec /\ ~do_verify
    /\ \E k \in Recs : handed[k].unz # original /\ results[k].pass

\* C5: when several eligible candidates share the best value of the
\* deciding metric, the earliest of them in the list is returned.
Eligible ==
    IF op = "find_smallest_compressor"
    THEN {k \in Measured : ClearsFivePercent(k)}
    ELSE {k \in Recs : results[k].pass}
Beats(k, j) ==
    CASE op = "find_smallest_compressor" -> DGt(results[k].ratio, results[j].ratio)
      [] op = "find_fastest_compressor" -> results[k].enctime < results[j].enctime
      [] op = "find_fastest_decompressor" -> results[k].dectime < results[j].dectime
Tied == {k \in Eligible : \A j \in Eligible : ~Beats(j, k)}

C5_FirstOfTiedBestWins ==
    (op \in Finders /\ pc = "done" /\ Cardinality(Tied) > 1) =>
        \E k \in Tied : q = results[k].q /\ \A j \in Tied : k <= j

\* C6: container-level pack: when the low-level pack fails it returns
\* false and buffer_out ends empty; when it succeeds it returns true and
\* buffer_out ends with the compressed length the low-level pack reported.
C6_PackResult ==
    (op = "pack" /\ low.called) =>
        IF low.result
        THEN ret /\ buffer_out.len = low.zlen
        ELSE ~ret /\ buffer_out.len = 0

C6_Witness ==
    Returned("pack") /\ low.called /\ ~low.result /\ buffer_out.len = 0

\* C7: pack of a zero-length input, and unpack with a zero-length input
\* or output, complete normally instead of raising an exception.
C7_EmptyInputCompletes ==
    /\ (op = "pack" /\ buffer_in.len = 0) => pc # "threw"
    /\ (op = "unpack" /\ (buffer_in.len = 0 \/ buffer_out.len = 0)) => pc # "threw"

\* C8: whenever measures decodes for a candidate, it has encoded the
\* original with that candidate in the same iteration and hands the
\* decoder exactly those compressed bytes.
C8_DecodeGetsJustEncoded ==
    \A k \in 1..Len(handed) :
        handed[k].dec =>
            handed[k].enc /\ handed[k].arg = Z(original, encodings[k])

\* C9: measures returns one record per candidate, in the order of the
\* candidate list, whatever failed.
C9_OneRecordPerCandidateInOrder ==
    /\ Len(results) <= Len(encodings)
    /\ \A k \in Recs : results[k].q = encodings[k]
    /\ (op \in {"measures"} \cup Finders /\ pc \in {"select", "done"}) =>
           Len(results) = Len(encodings)

C9_Witness ==
    /\ Returned("measures")
    /\ Len(encodings) = MaxCands
    /\ \E j, k \in Recs : j < k /\ encodings[j] = encodings[k] /\ Failing(encodings[j])

\* C10: the identifier a selection routine returns is NONE or occurs in
\* the candidate list; for an empty list it is NONE; and the candidate
\* find_smallest_compressor returns has a ratio above zero.
C10_ReturnsNoneOrCandidate ==
    (op \in Finders /\ pc = "done") =>
        /\ q = NONE \/ q \in Range(encodings)
        /\ encodings = <<>> => q = NONE
        /\ (op = "find_smallest_compressor" /\ q # NONE) =>
               \A k \in Recs : results[k].q = q => DGt(results[k].ratio, Zero)

C10_Witness ==
    /\ Returned("find_smallest_compressor")
    /\ q # NONE /\ q \in Range(encodings) /\ ~Failing(q)
    /\ \E k \in Recs : results[k].q # q

====
